---- MODULE Spec2Model ----
(***************************************************************************)
(* Model of src/binexp_parser.py: the BinOpAst prefix-expression parser,   *)
(* its prefix serializer and the four simplification passes (add_id,       *)
(* mult_id, mult_by_zero, constant_fold) with the simplify_binops driver.  *)
(*                                                                         *)
(* Python values are modelled as one-field records so that values of       *)
(* different Python types can be compared as Python's == compares them:    *)
(*   int n -> [int |-> n]   str s -> [str |-> s]   False -> [bool |-> FALSE]*)
(* A str is a sequence of one-character strings.  An object is a record    *)
(* of its attributes; an object on which __init__ assigned nothing is the  *)
(* empty record <<>>.                                                      *)
(***************************************************************************)
EXTENDS Integers, Sequences, FiniteSets, TLC

\* pc          "input": a token list has been read, no object constructed yet;
\*             "built": BinOpAst(prefix_list) has returned or raised
\* prefix_list the token list handed to BinOpAst, consumed from the front
\* tree        the BinOpAst object, mutated in place by the passes
\* err         the exception raised by the last call, NoErr if it returned
\* last        the method called last
\* prev        the object as it was when the last call started
\* drops       for every node the last call rewrote, in order, the number of
\*             nodes the rewrite removed from the tree
\* divz        the last call evaluated a '/' or '%' node with divisor 0
VARIABLES pc, prefix_list, tree, err, last, prev, drops, divz

vars == <<pc, prefix_list, tree, err, last, prev, drops, divz>>

(***************************************************************************)
(* Bounds of the model.                                                    *)
(***************************************************************************)
\* operators in an enumerated complete input expression
MaxOps == 2
\* length of the enumerated arbitrary (possibly incomplete) token lists
MaxTokens == 3
\* operands -MaxVal..MaxVal of the enumerated "op a b" inputs
MaxVal == 10

(***************************************************************************)
(* Python values.                                                          *)
(***************************************************************************)
PyInt(n) == [int |-> n]

PyStr(s) == [str |-> s]

PyFalse == [bool |-> FALSE]

PyNone == [none |-> TRUE]

IsPyInt(v) == DOMAIN v = {"int"}

\* an object whose __init__ returned without assigning any attribute
NoAttrs == <<>>

HasAttr(obj, name) == name \in DOMAIN obj

NoErr == "none"

(***************************************************************************)
(* str methods used by the parser and the harness.                         *)
(***************************************************************************)
DigitSeq == <<"0", "1", "2", "3", "4", "5", "6", "7", "8", "9">>

DigitChars == {DigitSeq[i] : i \in 1..Len(DigitSeq)}

AlphaChars == {"a", "b", "c", "x", "y", "z", "A", "X"}

DigitVal(c) == CHOOSE i \in 0..9 : DigitSeq[i + 1] = c

\* a parser that tests val.isnumeric() without stripping the sign
LStripNothing(s, c) == s

\* str.lstrip(c)
RECURSIVE LStrip(_, _)
LStrip(s, c) == IF s # <<>> /\ Head(s) = c THEN LStrip(Tail(s), c) ELSE s

\* str.isnumeric()
IsNumeric(s) == s # <<>> /\ \A i \in 1..Len(s) : s[i] \in DigitChars

\* str.isalpha()
IsAlpha(s) == s # <<>> /\ \A i \in 1..Len(s) : s[i] \in AlphaChars

\* value of a non-empty digit string
RECURSIVE DigitsToNat(_)
DigitsToNat(s) ==
    IF Len(s) = 1 THEN DigitVal(s[1])
    ELSE 10 * DigitsToNat(SubSeq(s, 1, Len(s) - 1)) + DigitVal(s[Len(s)])

\* int(s) for s with s.lstrip("-").isnumeric(): at most one sign is accepted
ToInt(s) ==
    IF IsNumeric(s) THEN [ok |-> TRUE, v |-> DigitsToNat(s)]
    ELSE IF Head(s) = "-" /\ IsNumeric(Tail(s))
         THEN [ok |-> TRUE, v |-> 0 - DigitsToNat(Tail(s))]
         ELSE [ok |-> FALSE, v |-> 0]

RECURSIVE NatToStr(_)
NatToStr(n) ==
    IF n < 10 THEN <<DigitSeq[n + 1]>>
    ELSE NatToStr(n \div 10) \o <<DigitSeq[(n % 10) + 1]>>

\* str(n) of an int
IntToStr(n) == IF n < 0 THEN <<"-">> \o NatToStr(0 - n) ELSE NatToStr(n)

\* str(v) of a value held in self.val
Str(v) == IF IsPyInt(v) THEN IntToStr(v.int) ELSE v.str

\* str.split(): the maximal runs of non-blank characters
RECURSIVE SplitFrom(_, _, _)
SplitFrom(s, cur, acc) ==
    IF s = <<>> THEN (IF cur = <<>> THEN acc ELSE Append(acc, cur))
    ELSE IF Head(s) = " "
         THEN SplitFrom(Tail(s), <<>>, IF cur = <<>> THEN acc ELSE Append(acc, cur))
         ELSE SplitFrom(Tail(s), Append(cur, Head(s)), acc)

Split(s) == SplitFrom(s, <<>>, <<>>)

(***************************************************************************)
(* BinOpAst.__init__                                                       *)
(***************************************************************************)
Leaf(type, val) == [type |-> type, val |-> val, left |-> PyFalse, right |-> PyFalse]

\* Result: the constructed object, the tokens left in the list, and the
\* exception raised by int(), if any (the caller then gets no object).
RECURSIVE BinOpAst(_)
BinOpAst(pl) ==
    IF pl = <<>> THEN [node |-> NoAttrs, rest |-> pl, err |-> NoErr]
    ELSE LET val == Head(pl)
             rest == Tail(pl)
         IN  IF IsNumeric(LStrip(val, "-"))
             THEN LET n == ToInt(val)
                  IN  IF n.ok
                      THEN [node |-> Leaf("number", PyInt(n.v)), rest |-> rest, err |-> NoErr]
                      ELSE [node |-> [val |-> PyStr(val)], rest |-> rest, err |-> "ValueError"]
             ELSE IF IsAlpha(val)
             THEN [node |-> Leaf("variable", PyStr(val)), rest |-> rest, err |-> NoErr]
             ELSE LET l == BinOpAst(rest)
                  IN  IF l.err # NoErr
                      THEN [node |-> [val |-> PyStr(val), type |-> "operator"],
                            rest |-> l.rest, err |-> l.err]
                      ELSE LET r == BinOpAst(l.rest)
                           IN  IF r.err # NoErr
                               THEN [node |-> [val |-> PyStr(val), type |-> "operator",
                                               left |-> l.node],
                                     rest |-> r.rest, err |-> r.err]
                               ELSE [node |-> [type |-> "operator", val |-> PyStr(val),
                                               left |-> l.node, right |-> r.node],
                                     rest |-> r.rest, err |-> NoErr]

(***************************************************************************)
(* BinOpAst.prefix_str                                                     *)
(***************************************************************************)
RECURSIVE prefix_str(_)
prefix_str(self) ==
    IF self.type = "operator"
    THEN Str(self.val) \o <<" ">> \o prefix_str(self.left) \o <<" ">> \o prefix_str(self.right)
    ELSE Str(self.val)

(***************************************************************************)
(* The passes.  A call returns the object as the call left it (t), the     *)
(* exception it raised (err) and the two records of what it did (drops,    *)
(* divz).  An attribute read on an object without that attribute raises    *)
(* AttributeError; an exception in a callee ends the caller at once and    *)
(* leaves the caller's own fields as they were.                            *)
(***************************************************************************)
Ret(t) == [t |-> t, err |-> NoErr, drops |-> <<>>, divz |-> FALSE]

Raise(t, e) == [t |-> t, err |-> e, drops |-> <<>>, divz |-> FALSE]

\* number of objects reachable from self through left and right
RECURSIVE Size(_)
Size(self) ==
    1 + (IF HasAttr(self, "left") /\ self.left # PyFalse THEN Size(self.left) ELSE 0)
      + (IF HasAttr(self, "right") /\ self.right # PyFalse THEN Size(self.right) ELSE 0)

\* r, with the rewrite of node `before` into `after` recorded
Rewrote(before, after) ==
    [t |-> after, err |-> NoErr, drops |-> <<Size(before) - Size(after)>>, divz |-> FALSE]

\* the outcome of call r followed, if r returned, by call q on r's object
Both(r, q) ==
    IF r.err # NoErr THEN r
    ELSE [t |-> q.t, err |-> q.err, drops |-> r.drops \o q.drops, divz |-> r.divz \/ q.divz]

\* self after self.left.<pass>() gave l and self.right.<pass>() gave r
WithChildren(self, l, r) == [self EXCEPT !.left = l.t, !.right = r.t]

\* an identity pass that forgets the elif branch (identity value on the right)
IdentityAtLeftOnly(self, operator, match) ==
    IF self.val = PyStr(operator) /\ self.left.val = PyInt(match)
    THEN Rewrote(self, [type |-> self.right.type, val |-> self.right.val,
                        left |-> self.right.left, right |-> self.right.right])
    ELSE Ret(self)

\* lines 103-115: the node-level step of identity, children already done
IdentityAt(self, operator, match) ==
    IF self.val = PyStr(operator)
    THEN IF self.left.val = PyInt(match)
         THEN Rewrote(self, [type |-> self.right.type, val |-> self.right.val,
                             left |-> self.right.left, right |-> self.right.right])
         ELSE IF self.right.val = PyInt(match)
         THEN Rewrote(self, [type |-> self.left.type, val |-> self.left.val,
                             left |-> self.left.left, right |-> self.left.right])
         ELSE Ret(self)
    ELSE Ret(self)

RECURSIVE identity(_, _, _)
identity(self, operator, match) ==
    IF ~HasAttr(self, "type") THEN Raise(self, "AttributeError")
    ELSE IF self.type # "operator" THEN Ret(self)
    ELSE LET l == identity(self.left, operator, match)
         IN  IF l.err # NoErr THEN [l EXCEPT !.t = [self EXCEPT !.left = l.t]]
             ELSE LET r == identity(self.right, operator, match)
                      lr == Both(l, r)
                  IN  IF r.err # NoErr THEN [lr EXCEPT !.t = WithChildren(self, l, r)]
                      ELSE Both(lr, IdentityAt(WithChildren(self, l, r), operator, match))

\* an additive identity pass called with the multiplicative identity value
add_id_matches_one(self) == identity(self, <<"+">>, 1)

add_id(self) == identity(self, <<"+">>, 0)

mult_id(self) == identity(self, <<"*">>, 1)

\* a multiplication-by-zero pass that forgets to drop the children
MultByZeroAtKeepsChildren(self) ==
    IF self.val = PyStr(<<"*">>) /\ (self.left.val = PyInt(0) \/ self.right.val = PyInt(0))
    THEN Rewrote(self, [self EXCEPT !.type = "number", !.val = PyInt(0)])
    ELSE Ret(self)

\* lines 134-138: the node-level step of mult_by_zero, children already done
MultByZeroAt(self) ==
    IF self.val = PyStr(<<"*">>) /\ (self.left.val = PyInt(0) \/ self.right.val = PyInt(0))
    THEN Rewrote(self, Leaf("number", PyInt(0)))
    ELSE Ret(self)

RECURSIVE mult_by_zero(_)
mult_by_zero(self) ==
    IF ~HasAttr(self, "type") THEN Raise(self, "AttributeError")
    ELSE IF self.type # "operator" THEN Ret(self)
    ELSE LET l == mult_by_zero(self.left)
         IN  IF l.err # NoErr THEN [l EXCEPT !.t = [self EXCEPT !.left = l.t]]
             ELSE LET r == mult_by_zero(self.right)
                      lr == Both(l, r)
                  IN  IF r.err # NoErr THEN [lr EXCEPT !.t = WithChildren(self, l, r)]
                      ELSE Both(lr, MultByZeroAt(WithChildren(self, l, r)))

(***************************************************************************)
(* Python's // and % on ints: the floor quotient and the remainder with    *)
(* the sign of the divisor; both raise ZeroDivisionError on divisor 0.     *)
(***************************************************************************)
\* a quotient that truncates toward zero
PyFloorDivTrunc(a, b) ==
    LET abs(n) == IF n < 0 THEN 0 - n ELSE n
        q == abs(a) \div abs(b)
    IN  IF (a < 0) # (b < 0) THEN 0 - q ELSE q

PyFloorDiv(a, b) == IF b > 0 THEN a \div b ELSE (0 - a) \div (0 - b)

PyMod(a, b) == a - b * PyFloorDiv(a, b)

\* a division that yields 0 for a zero divisor instead of raising
PyDivModNoRaise(a, b) ==
    IF b = 0 THEN [ok |-> TRUE, q |-> 0, r |-> 0]
    ELSE [ok |-> TRUE, q |-> PyFloorDiv(a, b), r |-> PyMod(a, b)]

PyDivMod(a, b) ==
    IF b = 0 THEN [ok |-> FALSE, q |-> 0, r |-> 0]
    ELSE [ok |-> TRUE, q |-> PyFloorDiv(a, b), r |-> PyMod(a, b)]

\* lines 140-156.  self.type is assigned before the arithmetic, so a
\* ZeroDivisionError leaves a node of type number with the operator symbol
\* as val and both children in place.  A symbol outside the five cases
\* matches no case and keeps val.
evaluate(self) ==
    LET typed == [self EXCEPT !.type = "number"]
        a == self.left.val.int
        b == self.right.val.int
        d == PyDivMod(a, b)
        Done(v) == Rewrote(self, Leaf("number", PyInt(v)))
        ZeroDivision == [t |-> typed, err |-> "ZeroDivisionError", drops |-> <<>>, divz |-> TRUE]
    IN  CASE self.val = PyStr(<<"+">>) -> Done(a + b)
          [] self.val = PyStr(<<"-">>) -> Done(a - b)
          [] self.val = PyStr(<<"*">>) -> Done(a * b)
          [] self.val = PyStr(<<"/">>) -> IF d.ok THEN Done(d.q) ELSE ZeroDivision
          [] self.val = PyStr(<<"%">>) -> IF d.ok THEN Done(d.r) ELSE ZeroDivision
          [] OTHER -> Rewrote(self, [typed EXCEPT !.left = PyFalse, !.right = PyFalse])

\* a constant_fold that only folds
ConstantFoldAtFoldOnly(self) ==
    IF self.left.type = "number" /\ self.right.type = "number"
    THEN evaluate(self)
    ELSE Ret(self)

\* lines 170-175: the node-level step of constant_fold, children already done
ConstantFoldAt(self) ==
    IF self.left.type = "number" /\ self.right.type = "number"
    THEN evaluate(self)
    ELSE LET a == add_id(self)
             m == Both(a, mult_id(a.t))
         IN  Both(m, mult_by_zero(m.t))

RECURSIVE constant_fold(_)
constant_fold(self) ==
    IF ~HasAttr(self, "type") THEN Raise(self, "AttributeError")
    ELSE IF self.type # "operator" THEN Ret(self)
    ELSE LET l == constant_fold(self.left)
         IN  IF l.err # NoErr THEN [l EXCEPT !.t = [self EXCEPT !.left = l.t]]
             ELSE LET r == constant_fold(self.right)
                      lr == Both(l, r)
                  IN  IF r.err # NoErr THEN [lr EXCEPT !.t = WithChildren(self, l, r)]
                      ELSE Both(lr, ConstantFoldAt(WithChildren(self, l, r)))

simplify_binops(self) ==
    LET a == add_id(self)
        m == Both(a, mult_id(a.t))
        z == Both(m, mult_by_zero(m.t))
    IN  Both(z, constant_fold(z.t))

(***************************************************************************)
(* Inputs.                                                                 *)
(***************************************************************************)
OpToks == {<<"+">>, <<"-">>, <<"*">>, <<"/">>, <<"%">>}

\* the two literals the rules single out, and a variable
LeafToks == {<<"0">>, <<"1">>, <<"x">>}

\* the shapes of the complete prefix expressions with exactly k operators:
\* "o" stands for an operator token, "l" for a leaf token
RECURSIVE ShapesOf(_)
ShapesOf(k) ==
    IF k = 0 THEN {<<"l">>}
    ELSE UNION {{<<"o">> \o l \o r : l \in ShapesOf(i), r \in ShapesOf(k - 1 - i)}
                : i \in 0..(k - 1)}

\* the shape with its i-th "o" replaced by ops[i] and its j-th "l" by leaves[j]
RECURSIVE Fill(_, _, _)
Fill(shape, ops, leaves) ==
    IF shape = <<>> THEN <<>>
    ELSE IF Head(shape) = "o"
         THEN <<Head(ops)>> \o Fill(Tail(shape), Tail(ops), leaves)
         ELSE <<Head(leaves)>> \o Fill(Tail(shape), ops, Tail(leaves))

\* tokens of the arbitrary lists: the above, "-1", and "--1", which passes
\* lstrip("-").isnumeric() and is refused by int()
AnyToks == OpToks \cup LeafToks \cup {<<"-", "1">>, <<"-", "-", "1">>}

(***************************************************************************)
(* The state machine: the harness reads a token list, constructs the tree  *)
(* and calls passes on it; a call that raised ends the use of the tree.    *)
(***************************************************************************)
InitWith(input) ==
    /\ pc = "input"
    /\ prefix_list = input
    /\ tree = PyNone
    /\ err = NoErr
    /\ last = "none"
    /\ prev = PyNone
    /\ drops = <<>>
    /\ divz = FALSE

\* the complete expressions of at most MaxOps operators over LeafToks, and
\* "op a b" for literals a, b in -MaxVal..MaxVal (negatives, two digits)
Init ==
    \/ \E k \in 0..MaxOps : \E shape \in ShapesOf(k) :
           \E ops \in [1..k -> OpToks] : \E leaves \in [1..(k + 1) -> LeafToks] :
               InitWith(Fill(shape, ops, leaves))
    \/ \E o \in OpToks : \E a, b \in (0 - MaxVal)..MaxVal :
           InitWith(<<o, IntToStr(a), IntToStr(b)>>)

\* every token list of at most MaxTokens tokens, complete or not
InitParse ==
    \E n \in 0..MaxTokens : \E toks \in [1..n -> AnyToks] :
        InitWith(toks)

Construct ==
    /\ pc = "input"
    /\ LET b == BinOpAst(prefix_list)
       IN  /\ tree' = IF b.err = NoErr THEN b.node ELSE PyNone
           /\ prefix_list' = b.rest
           /\ err' = b.err
    /\ pc' = "built"
    /\ last' = "__init__"
    /\ UNCHANGED <<prev, drops, divz>>

Call(name, r) ==
    /\ pc = "built"
    /\ err = NoErr
    /\ \E res \in {r} :
           /\ tree' = res.t
           /\ err' = res.err
           /\ drops' = res.drops
           /\ divz' = res.divz
    /\ prev' = tree
    /\ last' = name
    /\ UNCHANGED <<pc, prefix_list>>

AddId == Call("add_id", add_id(tree))

MultId == Call("mult_id", mult_id(tree))

MultByZero == Call("mult_by_zero", mult_by_zero(tree))

ConstantFold == Call("constant_fold", constant_fold(tree))

SimplifyBinops == Call("simplify_binops", simplify_binops(tree))

Next ==
    \/ Construct
    \/ AddId
    \/ MultId
    \/ MultByZero
    \/ ConstantFold
    \/ SimplifyBinops

Spec == Init /\ [][Next]_vars

SpecParse == InitParse /\ [][Next]_vars

(***************************************************************************)
(* Vocabulary of the properties: the three node variants, well-formedness, *)
(* and the rules and the meaning of an expression as the specification     *)
(* states them, independently of the passes above.                         *)
(***************************************************************************)
Number(v) == [type |-> "number", val |-> [int |-> v],
              left |-> [bool |-> FALSE], right |-> [bool |-> FALSE]]

Variable(name) == [type |-> "variable", val |-> [str |-> <<name>>],
                   left |-> [bool |-> FALSE], right |-> [bool |-> FALSE]]

Operator(sym, l, r) == [type |-> "operator", val |-> [str |-> <<sym>>], left |-> l, right |-> r]

Symbols == {"+", "-", "*", "/", "%"}

Sym(n) == n.val.str[1]

RuleNames == {"add_id", "mult_id", "mult_by_zero", "constant_fold", "simplify_binops"}

IsNumberLeaf(n) ==
    /\ DOMAIN n = {"type", "val", "left", "right"}
    /\ n.type = "number"
    /\ DOMAIN n.val = {"int"}
    /\ n.left = [bool |-> FALSE]
    /\ n.right = [bool |-> FALSE]

RECURSIVE WellFormed(_)
WellFormed(n) ==
    /\ DOMAIN n = {"type", "val", "left", "right"}
    /\ CASE n.type = "operator" ->
              /\ n.val \in {[str |-> <<sym>>] : sym \in Symbols}
              /\ WellFormed(n.left)
              /\ WellFormed(n.right)
         [] n.type = "number" -> IsNumberLeaf(n)
         [] n.type = "variable" ->
              /\ DOMAIN n.val = {"str"}
              /\ n.left = [bool |-> FALSE]
              /\ n.right = [bool |-> FALSE]
         [] OTHER -> FALSE

\* some operator node with symbol sym has the Number e as a child
RECURSIVE HasPattern(_, _, _)
HasPattern(n, sym, e) ==
    /\ n.type = "operator"
    /\ \/ Sym(n) = sym /\ (n.left = Number(e) \/ n.right = Number(e))
       \/ HasPattern(n.left, sym, e)
       \/ HasPattern(n.right, sym, e)

\* some operator node has two Number leaves as children
RECURSIVE HasConstantPair(_)
HasConstantPair(n) ==
    /\ n.type = "operator"
    /\ \/ n.left.type = "number" /\ n.right.type = "number"
       \/ HasConstantPair(n.left)
       \/ HasConstantPair(n.right)

IsDivByZero(n) ==
    /\ n.type = "operator"
    /\ Sym(n) \in {"/", "%"}
    /\ n.left.type = "number"
    /\ n.right = Number(0)

\* some '/' or '%' node has two Number leaves as children, the right one 0
RECURSIVE HasDivByZero(_)
HasDivByZero(n) ==
    /\ n.type = "operator"
    /\ \/ IsDivByZero(n)
       \/ HasDivByZero(n.left)
       \/ HasDivByZero(n.right)

\* identity elimination, bottom-up: the other child replaces a matched node
RECURSIVE RuleIdentity(_, _, _)
RuleIdentity(n, sym, e) ==
    IF n.type # "operator" THEN n
    ELSE LET l == RuleIdentity(n.left, sym, e)
             r == RuleIdentity(n.right, sym, e)
         IN  IF Sym(n) = sym /\ l = Number(e) THEN r
             ELSE IF Sym(n) = sym /\ r = Number(e) THEN l
             ELSE Operator(Sym(n), l, r)

\* multiplication by zero, bottom-up: Number 0 replaces a matched node
RECURSIVE RuleMultByZero(_)
RuleMultByZero(n) ==
    IF n.type # "operator" THEN n
    ELSE LET l == RuleMultByZero(n.left)
             r == RuleMultByZero(n.right)
         IN  IF Sym(n) = "*" /\ (l = Number(0) \/ r = Number(0)) THEN Number(0)
             ELSE Operator(Sym(n), l, r)

\* floor quotient and remainder, by their defining property
FloorQuot(a, b) ==
    LET m == IF a < 0 THEN 1 - a ELSE a + 1
    IN  CHOOSE q \in (0 - m)..m :
            LET r == a - b * q
            IN  (b > 0 /\ 0 <= r /\ r < b) \/ (b < 0 /\ b < r /\ r <= 0)

FloorRem(a, b) == a - b * FloorQuot(a, b)

Apply(sym, a, b) ==
    CASE sym = "+" -> a + b
      [] sym = "-" -> a - b
      [] sym = "*" -> a * b
      [] sym = "/" -> FloorQuot(a, b)
      [] sym = "%" -> FloorRem(a, b)

\* constant folding alone, bottom-up; a division by zero is left unfolded
RECURSIVE RuleFold(_)
RuleFold(n) ==
    IF n.type # "operator" THEN n
    ELSE LET l == RuleFold(n.left)
             r == RuleFold(n.right)
         IN  IF /\ l.type = "number"
                /\ r.type = "number"
                /\ ~(Sym(n) \in {"/", "%"} /\ r.val.int = 0)
             THEN Number(Apply(Sym(n), l.val.int, r.val.int))
             ELSE Operator(Sym(n), l, r)

\* the value of n with every variable bound to x; ok is FALSE when some
\* subtree divides or takes a remainder by zero
RECURSIVE Eval(_, _)
Eval(n, x) ==
    IF n.type = "number" THEN [ok |-> TRUE, v |-> n.val.int]
    ELSE IF n.type = "variable" THEN [ok |-> TRUE, v |-> x]
    ELSE LET l == Eval(n.left, x)
             r == Eval(n.right, x)
         IN  IF ~l.ok \/ ~r.ok \/ (Sym(n) \in {"/", "%"} /\ r.v = 0)
             THEN [ok |-> FALSE, v |-> 0]
             ELSE [ok |-> TRUE, v |-> Apply(Sym(n), l.v, r.v)]

EnvValues == {-3, -1, 0, 1, 2}

RECURSIVE Sum(_)
Sum(q) == IF q = <<>> THEN 0 ELSE Head(q) + Sum(Tail(q))

Returned(name) == pc = "built" /\ last = name /\ err = NoErr

(***************************************************************************)
(* C1.  One call of simplify_binops that completes leaves a fixpoint: no   *)
(* '+' node with a Number 0 child, no '*' node with a Number 1 or Number 0 *)
(* child, no operator node with two Number children; a second call         *)
(* completes and yields the same prefix string.                            *)
(***************************************************************************)
SimplifyReachesFixpoint ==
    Returned("simplify_binops") =>
        /\ ~HasPattern(tree, "+", 0)
        /\ ~HasPattern(tree, "*", 1)
        /\ ~HasPattern(tree, "*", 0)
        /\ ~HasConstantPair(tree)
        /\ LET again == simplify_binops(tree)
           IN  /\ again.err = NoErr
               /\ prefix_str(again.t) = prefix_str(tree)

\* "* x - 1 1": the zero appears only once the right child has been folded
SimplifyReachesFixpointWitness ==
    /\ Returned("simplify_binops")
    /\ prev = Operator("*", Variable("x"), Operator("-", Number(1), Number(1)))
    /\ tree = Number(0)

(***************************************************************************)
(* C2.  BinOpAst never returns an object without type/val, nor an operator *)
(* node with a missing or incomplete child: on an exhausted token list the *)
(* constructor fails instead.                                              *)
(***************************************************************************)
ParseFailsOnExhaustedTokens ==
    (pc = "built" /\ last = "__init__" /\ err = NoErr) => WellFormed(tree)

(***************************************************************************)
(* C3.  A '/' or '%' node with two Number children and divisor 0 that      *)
(* constant folding evaluates ends the whole call with ZeroDivisionError:  *)
(* the call does not return, and the root is left without a numeric        *)
(* result.  constant_fold reaches every such node of its input; for the    *)
(* inputs "/ a 0" and "% a 0" so does simplify_binops.                     *)
(***************************************************************************)
DivisionByZeroPropagates ==
    /\ divz => err = "ZeroDivisionError"
    /\ (pc = "built" /\ last = "constant_fold" /\ HasDivByZero(prev))
           => err = "ZeroDivisionError"
    /\ (pc = "built" /\ last \in {"constant_fold", "simplify_binops"} /\ IsDivByZero(prev))
           => err = "ZeroDivisionError"
    /\ err = "ZeroDivisionError" => divz /\ ~IsNumberLeaf(tree)

DivisionByZeroPropagatesWitness ==
    /\ pc = "built"
    /\ last = "simplify_binops"
    /\ prev = Operator("/", Number(5), Number(0))
    /\ err = "ZeroDivisionError"

(***************************************************************************)
(* C4.  Every rule application of a call (an identity elimination, a       *)
(* multiplication-by-zero replacement, a constant fold of one node)        *)
(* removes at least one node; the applications account for the whole       *)
(* change of the node count, so a call on a tree of n nodes makes fewer    *)
(* than n of them.                                                         *)
(***************************************************************************)
RuleApplicationsShrink ==
    (pc = "built" /\ last \in RuleNames) =>
        /\ \A i \in 1..Len(drops) : drops[i] > 0
        /\ Size(tree) + Sum(drops) = Size(prev)
        /\ Len(drops) < Size(prev)
        /\ (err = NoErr /\ tree # prev) => Size(tree) < Size(prev)

RuleApplicationsShrinkWitness ==
    /\ Returned("simplify_binops")
    /\ prev = Operator("+", Operator("*", Variable("x"), Number(0)), Number(1))
    /\ drops = <<2, 2>>

(***************************************************************************)
(* C5.  Round trip: for a well-formed tree, splitting its prefix string on *)
(* whitespace and parsing the tokens consumes every token and gives a tree *)
(* with the same prefix string.                                            *)
(***************************************************************************)
PrefixRoundTrip ==
    (pc = "built" /\ err = NoErr /\ WellFormed(tree)) =>
        LET again == BinOpAst(Split(prefix_str(tree)))
        IN  /\ again.err = NoErr
            /\ again.rest = <<>>
            /\ WellFormed(again.node)
            /\ prefix_str(again.node) = prefix_str(tree)

\* a tree with a negative and a two-digit literal under an operator
PrefixRoundTripWitness ==
    /\ pc = "built"
    /\ err = NoErr
    /\ tree = Operator("-", Number(-10), Number(10))
    /\ prefix_str(tree) = <<"-", " ", "-", "1", "0", " ", "1", "0">>

(***************************************************************************)
(* C6.  Folding an operator node with Number children a and b gives the    *)
(* childless Number a+b, a-b, a*b, and for b # 0 the floor quotient and    *)
(* the floor remainder: a = b*q + r with r between 0 and b, b excluded.    *)
(***************************************************************************)
FoldArithmetic ==
    (pc = "built" /\ last = "constant_fold" /\ prev.type = "operator"
        /\ prev.left.type = "number" /\ prev.right.type = "number") =>
        LET a == prev.left.val.int
            b == prev.right.val.int
        IN  /\ Sym(prev) = "+" => tree = Number(a + b)
            /\ Sym(prev) = "-" => tree = Number(a - b)
            /\ Sym(prev) = "*" => tree = Number(a * b)
            /\ (Sym(prev) = "/" /\ b # 0) => tree = Number(FloorQuot(a, b))
            /\ (Sym(prev) = "%" /\ b # 0) => tree = Number(FloorRem(a, b))
            /\ prev = Operator("/", Number(-7), Number(2)) => tree = Number(-4)
            /\ prev = Operator("%", Number(-7), Number(2)) => tree = Number(1)
            /\ prev = Operator("/", Number(7), Number(-2)) => tree = Number(-4)
            /\ prev = Operator("%", Number(7), Number(-2)) => tree = Number(-1)
            /\ ~(Sym(prev) \in {"/", "%"} /\ b = 0) => err = NoErr

FoldArithmeticWitness ==
    /\ Returned("constant_fold")
    /\ prev = Operator("/", Number(-7), Number(2))
    /\ tree = Number(-4)

(***************************************************************************)
(* C7.  One call of add_id, mult_id or mult_by_zero completes, leaves no   *)
(* node of its own pattern anywhere in the tree, and is exactly the        *)
(* bottom-up rule: a matched identity node becomes its other child, a      *)
(* matched multiplication by zero becomes Number 0, every other node keeps *)
(* its symbol or value.                                                    *)
(***************************************************************************)
PatternRulesComplete ==
    /\ (pc = "built" /\ last = "add_id") =>
           /\ err = NoErr
           /\ ~HasPattern(tree, "+", 0)
           /\ tree = RuleIdentity(prev, "+", 0)
    /\ (pc = "built" /\ last = "mult_id") =>
           /\ err = NoErr
           /\ ~HasPattern(tree, "*", 1)
           /\ tree = RuleIdentity(prev, "*", 1)
    /\ (pc = "built" /\ last = "mult_by_zero") =>
           /\ err = NoErr
           /\ ~HasPattern(tree, "*", 0)
           /\ tree = RuleMultByZero(prev)

\* "+ + x 0 0": the outer node matches only after the inner one was rewritten
PatternRulesCompleteWitness ==
    /\ Returned("add_id")
    /\ prev = Operator("+", Operator("+", Variable("x"), Number(0)), Number(0))
    /\ tree = Variable("x")

(***************************************************************************)
(* C8.  constant_fold alone only folds: it replaces the operator nodes     *)
(* whose children are both Number leaves once the children are folded, and *)
(* leaves every other operator node with its symbol and both children.     *)
(***************************************************************************)
ConstantFoldOnlyFolds ==
    Returned("constant_fold") => tree = RuleFold(prev)

(***************************************************************************)
(* C9.  Tree shape: every tree a sequence of calls leaves behind, the tree *)
(* of a call that raised included, has operator nodes with one of the five *)
(* symbols and two children, number nodes with an integer and no children, *)
(* variable nodes with no children.                                        *)
(***************************************************************************)
TreeShapeInvariant ==
    pc = "built" => WellFormed(tree)

(***************************************************************************)
(* C10.  Every pass that completes preserves the meaning: under every      *)
(* binding of the variables for which the tree before the call has a value *)
(* (no division or remainder by zero in any subtree), the tree after the   *)
(* call has the same value.                                                *)
(***************************************************************************)
MeaningPreserved ==
    (pc = "built" /\ last \in RuleNames /\ err = NoErr) =>
        \A x \in EnvValues :
            Eval(prev, x).ok => Eval(tree, x) = Eval(prev, x)

\* "- x + 0 1" becomes "- x 1"
MeaningPreservedWitness ==
    /\ Returned("simplify_binops")
    /\ prev = Operator("-", Variable("x"), Operator("+", Number(0), Number(1)))
    /\ tree = Operator("-", Variable("x"), Number(1))

====
